---- MODULE Spec2Model ----
(***************************************************************************)
(* A model of the two adapter layers of the repository:                    *)
(*   holoviews/core/data/dask.py        DaskInterface (select_mask, select,*)
(*                                      groupby, aggregate, unpack_scalar, *)
(*                                      sample)                            *)
(*   holoviews/plotting/bokeh/raster.py RasterPlot.get_data and            *)
(*                                      RGBPlot.get_data                   *)
(* Every method is a classmethod or a method without state of its own: a  *)
(* call reads its arguments and returns a value.  A behaviour of the model *)
(* is one call: pc goes from "idle" to "returned", args records the       *)
(* arguments of the call and res what it returned or raised.               *)
(***************************************************************************)
EXTENDS Integers, Sequences, FiniteSets, TLC

VARIABLES pc, columns, element, plot, args, res

vars == <<pc, columns, element, plot, args, res>>

(***************************************************************************)
(* Bounds of the model.                                                    *)
(***************************************************************************)
MaxRows == 2

(***************************************************************************)
(* Python values.  A returned value is a record [tag, val]; tag is one of  *)
(* "None", "mask", "frame", "scalar", "raise".                             *)
(***************************************************************************)
None == [tag |-> "None", val |-> <<>>]

Raise(exc) == [tag |-> "raise", val |-> exc]

Mask(bits) == [tag |-> "mask", val |-> bits]

Frame(rows) == [tag |-> "frame", val |-> rows]

Scalar(v) == [tag |-> "scalar", val |-> v]

NoArgs == [op |-> "none"]

RECURSIVE SeqsUpTo(_, _)
SeqsUpTo(S, n) ==
  IF n = 0 THEN {<<>>}
  ELSE LET shorter == SeqsUpTo(S, n - 1)
       IN shorter \cup {Append(s, e) : s \in {t \in shorter : Len(t) = n - 1}, e \in S}

(* df[mask]: the rows of df whose mask bit is set, in order *)
RECURSIVE BoolIndex(_, _)
BoolIndex(df, bits) ==
  IF df = <<>> THEN <<>>
  ELSE LET rest == BoolIndex(Tail(df), Tail(bits))
       IN IF Head(bits) THEN <<Head(df)>> \o rest ELSE rest

(***************************************************************************)
(* The Dataset handed to DaskInterface.  columns.data is the dask frame: a *)
(* sequence of rows, each a record of the key dimensions x, y and the      *)
(* value dimensions v, w.  w is an object (non numeric) column.            *)
(***************************************************************************)
kdims == <<"x", "y">>

vdims == <<"v", "w">>

(* the columns of the frame, in order *)
DataColumns == <<"x", "y", "v", "w">>

SeriesOf(df, dim) == [i \in 1..Len(df) |-> df[i][dim]]

len(df) == Len(df)

(***************************************************************************)
(* Selection keys (dask.py:64-67): tuple ranges, slices, sets, lists,      *)
(* callables or literals.  A bound of a slice is None or a number.         *)
(***************************************************************************)
NoBound == [some |-> FALSE, v |-> 0]

Bound(n) == [some |-> TRUE, v |-> n]

Key(kind, start, stop, items, val) ==
  [kind |-> kind, start |-> start, stop |-> stop, items |-> items, val |-> val]

Literal(c) == Key("literal", NoBound, NoBound, <<>>, c)

SliceKey(a, b) == Key("slice", a, b, <<>>, 0)

TupleKey(a, b) == Key("tuple", a, b, <<>>, 0)

ListKey(s) == Key("list", NoBound, NoBound, s, 0)

CallableKey(c) == Key("callable", NoBound, NoBound, <<>>, c)

(* the callable keys of the model: lambda s: s > c *)
Call(k, series) == [i \in 1..Len(series) |-> series[i] > k.val]

(***************************************************************************)
(* Behaviour of the wrapped engine that the source leaves open:            *)
(*   series_bool  bool(Series), used by `if select_mask:` (dask.py:94):    *)
(*                "len" (truth by __len__) or "ValueError" (ambiguous      *)
(*                truth value);                                            *)
(*   and_none     Series & None (dask.py:95 after an empty list key):      *)
(*                "all_false" (null operand filled with False) or          *)
(*                "TypeError".                                             *)
(***************************************************************************)
Engines == [series_bool : {"len", "ValueError"}, and_none : {"all_false", "TypeError"}]

(* dask.py:81-88: iter_slc over the members of a set or list key *)
RECURSIVE IterSlc(_, _, _)
IterSlc(items, series, iter_slc) ==
  IF items = <<>> THEN iter_slc
  ELSE LET mask == [i \in 1..Len(series) |-> series[i] = Head(items)]
       IN IterSlc(Tail(items), series,
                  IF iter_slc.tag = "None" THEN Mask(mask)
                  ELSE Mask([i \in 1..Len(series) |-> iter_slc.val[i] \/ mask[i]]))

(* dask.py:71-92: the list `masks` built for one (dim, k) item *)
KeyMasks(k, series) ==
  LET ks == IF k.kind = "tuple" THEN [k EXCEPT !.kind = "slice"] ELSE k
  IN CASE ks.kind = "slice" ->
            (IF ks.start.some
             THEN <<Mask([i \in 1..Len(series) |-> ks.start.v <= series[i]])>>
             ELSE <<>>)
            \o
            (IF ks.stop.some
             THEN <<Mask([i \in 1..Len(series) |-> series[i] < ks.stop.v])>>
             ELSE <<>>)
       [] ks.kind = "list" -> <<IterSlc(ks.items, series, None)>>
       [] ks.kind = "callable" -> <<Mask(Call(ks, series))>>
       [] OTHER -> <<Mask([i \in 1..Len(series) |-> series[i] = ks.val])>>

(* select_mask &= mask (dask.py:95) *)
MaskAnd(select_mask, mask, engine) ==
  IF mask.tag = "None"
  THEN IF engine.and_none = "TypeError" THEN Raise("TypeError")
       ELSE Mask([i \in 1..Len(select_mask.val) |-> FALSE])
  ELSE Mask([i \in 1..Len(select_mask.val) |-> select_mask.val[i] /\ mask.val[i]])

(* dask.py:94-97: one turn of `for mask in masks` *)
Accumulate(select_mask, mask, engine) ==
  IF select_mask.tag = "raise" THEN select_mask
  ELSE IF select_mask.tag = "None" THEN mask
  ELSE IF engine.series_bool = "ValueError" THEN Raise("ValueError")
  ELSE IF len(select_mask.val) > 0 THEN MaskAnd(select_mask, mask, engine)
  ELSE mask

RECURSIVE MasksLoop(_, _, _)
MasksLoop(masks, select_mask, engine) ==
  IF masks = <<>> THEN select_mask
  ELSE MasksLoop(Tail(masks), Accumulate(select_mask, Head(masks), engine), engine)

(* dask.py:70-97: `for dim, k in selection.items()`; items is the dict's   *)
(* items in iteration order, each <<dim, k>>                               *)
RECURSIVE SelectionLoop(_, _, _, _)
SelectionLoop(dataset, items, select_mask, engine) ==
  IF items = <<>> THEN select_mask
  ELSE LET dim == Head(items)[1]
           k == Head(items)[2]
           masks == KeyMasks(k, SeriesOf(dataset.data, dim))
       IN SelectionLoop(dataset, Tail(items),
                        MasksLoop(masks, select_mask, engine), engine)

select_mask(dataset, selection, engine) ==
  SelectionLoop(dataset, selection, None, engine)

(* Interface.indexed (holoviews/core/data/interface.py): every key         *)
(* dimension is selected and every key is a literal                        *)
indexed(dataset, selection) ==
  /\ \A i \in 1..Len(selection) : selection[i][2].kind = "literal"
  /\ \A d \in 1..Len(kdims) : \E i \in 1..Len(selection) : selection[i][1] = kdims[d]

(* dask.py:100-111; the `print selection_mask` of line 104 writes to the    *)
(* standard output and changes nothing that is returned                    *)
select(dataset, selection_mask, selection, engine) ==
  LET df == dataset.data
  IN IF selection_mask.tag # "None"
     THEN Frame(BoolIndex(df, selection_mask.val))
     ELSE LET m == select_mask(dataset, selection, engine)
          IN IF m.tag = "raise" THEN m
             ELSE LET df2 == IF m.tag = "None" THEN df ELSE BoolIndex(df, m.val)
                  IN IF indexed(dataset, selection) /\ len(df2) = 1
                     THEN Scalar(df2[1][vdims[1]])
                     ELSE Frame(df2)

(***************************************************************************)
(* Specification of select_mask and select.                                *)
(***************************************************************************)
SelectRows == [x : 0..2, y : 0..1, v : {3, 4}, w : {"a"}]

SelectKeys ==
  {Literal(c) : c \in {0, 1}}
  \cup {SliceKey(a, b) : a \in {NoBound, Bound(1)}, b \in {NoBound, Bound(2)}}
  \cup {TupleKey(Bound(0), Bound(1))}
  \cup {ListKey(s) : s \in {<<>>, <<0>>, <<0, 2>>}}
  \cup {CallableKey(0)}

(* the dicts over the key dimensions, as item lists in either order *)
Selections ==
  {<<>>}
  \cup {<<<<d, k>>>> : d \in {"x", "y"}, k \in SelectKeys}
  \cup {<<<<"x", k1>>, <<"y", k2>>>> : k1 \in SelectKeys, k2 \in SelectKeys}
  \cup {<<<<"y", k1>>, <<"x", k2>>>> : k1 \in SelectKeys, k2 \in SelectKeys}

NoPlot == [invert_axes |-> FALSE, invert_xaxis |-> FALSE, invert_yaxis |-> FALSE]

NoElement == [kind |-> "none"]

InitSelect ==
  /\ pc = "idle"
  /\ columns \in [data : SeqsUpTo(SelectRows, MaxRows)]
  /\ element = NoElement
  /\ plot = NoPlot
  /\ args = NoArgs
  /\ res = None

SelectMask ==
  /\ pc = "idle"
  /\ \E selection \in Selections, engine \in Engines :
       /\ args' = [op |-> "select_mask", selection |-> selection, engine |-> engine]
       /\ res' = select_mask(columns, selection, engine)
  /\ pc' = "returned"
  /\ UNCHANGED <<columns, element, plot>>

Select ==
  /\ pc = "idle"
  /\ \E selection \in Selections, engine \in Engines :
       /\ args' = [op |-> "select", selection |-> selection, engine |-> engine,
                   selection_mask |-> None]
       /\ res' = select(columns, None, selection, engine)
  /\ pc' = "returned"
  /\ UNCHANGED <<columns, element, plot>>

SelectWithMask ==
  /\ pc = "idle"
  /\ \E selection \in Selections, engine \in Engines,
        bits \in [1..Len(columns.data) -> BOOLEAN] :
       /\ args' = [op |-> "select", selection |-> selection, engine |-> engine,
                   selection_mask |-> Mask(bits)]
       /\ res' = select(columns, Mask(bits), selection, engine)
  /\ pc' = "returned"
  /\ UNCHANGED <<columns, element, plot>>

NextSelect == SelectMask \/ Select \/ SelectWithMask

SpecSelect == InitSelect /\ [][NextSelect]_vars

(***************************************************************************)
(* Claims about select_mask and select.                                    *)
(***************************************************************************)
(* the criterion of one key on one value, as the documentation states it *)
Satisfies(k, value) ==
  CASE k.kind \in {"tuple", "slice"} ->
         /\ k.start.some => k.start.v <= value
         /\ k.stop.some => value < k.stop.v
    [] k.kind = "list" -> \E j \in 1..Len(k.items) : value = k.items[j]
    [] k.kind = "callable" -> value > k.val
    [] OTHER -> value = k.val

RowSatisfies(row, selection) ==
  \A j \in 1..Len(selection) : Satisfies(selection[j][2], row[selection[j][1]])

MatchingBits(df, selection) == [i \in 1..Len(df) |-> RowSatisfies(df[i], selection)]

(* C1: select_mask returns a mask that is true for a row exactly when the  *)
(* row satisfies the criterion of every dimension in the selection (the    *)
(* None returned for a selection without any criterion selects every row). *)
C1_SelectMaskExact ==
  (pc = "returned" /\ args.op = "select_mask") =>
    /\ res.tag \in {"mask", "None"}
    /\ \A i \in 1..Len(columns.data) :
         (IF res.tag = "mask" THEN res.val[i] ELSE TRUE)
           <=> RowSatisfies(columns.data[i], args.selection)

(* C2: select without a selection_mask returns the rows matching the       *)
(* keyword selection, or the first value dimension's value of the sole     *)
(* remaining row exactly when the selection indexes the dataset and one    *)
(* row remains; with a selection_mask it returns the rows the mask chooses *)
(* and ignores the keyword selection.                                      *)
C2_SelectResult ==
  (pc = "returned" /\ args.op = "select") =>
    IF args.selection_mask.tag = "None"
    THEN LET rows == BoolIndex(columns.data, MatchingBits(columns.data, args.selection))
         IN IF indexed(columns, args.selection) /\ Len(rows) = 1
            THEN res = Scalar(rows[1][vdims[1]])
            ELSE res = Frame(rows)
    ELSE res = Frame(BoolIndex(columns.data, args.selection_mask.val))

(***************************************************************************)
(* DaskInterface.sample (dask.py:180-193).  A sample is a scalar or a      *)
(* tuple of values, one per leading key dimension.                         *)
(***************************************************************************)
MaxSamples == 2

ScalarSample(v) == [scalar |-> TRUE, vals |-> <<v>>]

TupleSample(vs) == [scalar |-> FALSE, vals |-> vs]

Min(a, b) == IF a < b THEN a ELSE b

(* dask.py:187-192: `for i, (c, v) in enumerate(zip(dims, sample))` from   *)
(* position i on                                                           *)
RECURSIVE ZipLoop(_, _, _, _, _)
ZipLoop(data, dims, sample, i, mask) ==
  IF i > Min(Len(dims), Len(sample)) THEN mask
  ELSE LET series == SeriesOf(data, dims[i])
           dim_mask == [r \in 1..Len(data) |-> series[r] = sample[i]]
       IN ZipLoop(data, dims, sample, i + 1,
                  IF mask.tag = "None" THEN Mask(dim_mask)
                  ELSE Mask([r \in 1..Len(data) |-> mask.val[r] \/ dim_mask[r]]))

(* dask.py:185-192: `for sample in samples` *)
RECURSIVE SamplesLoop(_, _, _, _)
SamplesLoop(data, dims, samples, mask) ==
  IF samples = <<>> THEN mask
  ELSE LET sample == Head(samples).vals    \* np.isscalar(sample): [sample]
       IN SamplesLoop(data, dims, Tail(samples), ZipLoop(data, dims, sample, 1, mask))

sample(dataset, samples) ==
  LET data == dataset.data
      dims == kdims
      mask == SamplesLoop(data, dims, samples, None)
  IN Frame(BoolIndex(data, mask.val))

Samples ==
  {ScalarSample(v) : v \in 0..1}
  \cup {TupleSample(<<a>>) : a \in 0..1}
  \cup {TupleSample(<<a, b>>) : a \in 0..1, b \in 0..1}

InitSample ==
  /\ pc = "idle"
  /\ columns \in [data : SeqsUpTo([x : 0..1, y : 0..1, v : {3, 4}, w : {"a"}], MaxRows)]
  /\ element = NoElement
  /\ plot = NoPlot
  /\ args = NoArgs
  /\ res = None

Sample ==
  /\ pc = "idle"
  /\ \E samples \in SeqsUpTo(Samples, MaxSamples) \ {<<>>} :
       /\ args' = [op |-> "sample", samples |-> samples]
       /\ res' = sample(columns, samples)
  /\ pc' = "returned"
  /\ UNCHANGED <<columns, element, plot>>

NextSample == Sample

SpecSample == InitSample /\ [][NextSample]_vars

(* a row matches a sample when it equals the sample in every key dimension *)
(* the sample supplies                                                     *)
MatchesSample(row, smp) ==
  \A i \in 1..Min(Len(kdims), Len(smp.vals)) : row[kdims[i]] = smp.vals[i]

(* C8: sample returns exactly the rows that match at least one sample.     *)
C8_SampleExact ==
  (pc = "returned" /\ args.op = "sample") =>
    res = Frame(BoolIndex(columns.data,
                          [r \in 1..Len(columns.data) |->
                             \E j \in 1..Len(args.samples) :
                               MatchesSample(columns.data[r], args.samples[j])]))

(***************************************************************************)
(* DaskInterface.unpack_scalar (dask.py:168-178).  The data handed in is a *)
(* frame [cols, rows, lazy]: its column names, its rows (each a sequence   *)
(* of cells) and whether it is a lazy dask frame or a computed one.        *)
(***************************************************************************)
MaxCols == 2

Cells == {3, 4}

unpack_scalar(dataset, data) ==
  IF Len(data.cols) > 1 \/ len(data.rows) # 1
  THEN [tag |-> "frame", val |-> data]
  ELSE LET computed == [data EXCEPT !.lazy = FALSE]   \* data.compute()
       IN IF Len(computed.cols) = 0 THEN Raise("IndexError")   \* iat[0, 0]
          ELSE Scalar(computed.rows[1][1])

ScalarFrames ==
  UNION {[cols : {SubSeq(DataColumns, 1, n)},
          rows : SeqsUpTo([1..n -> Cells], MaxRows),
          lazy : BOOLEAN] : n \in 0..MaxCols}

InitScalar ==
  /\ pc = "idle"
  /\ columns \in [data : SeqsUpTo([x : 0..1, y : {0}, v : Cells, w : {"a"}], MaxRows)]
  /\ element = NoElement
  /\ plot = NoPlot
  /\ args = NoArgs
  /\ res = None

UnpackScalar ==
  /\ pc = "idle"
  /\ \E data \in ScalarFrames :
       /\ args' = [op |-> "unpack_scalar", data |-> data]
       /\ res' = unpack_scalar(columns, data)
  /\ pc' = "returned"
  /\ UNCHANGED <<columns, element, plot>>

NextScalar == UnpackScalar

SpecScalar == InitScalar /\ [][NextScalar]_vars

(* C6: unpack_scalar returns the single cell of a frame of exactly one row *)
(* and one column, and returns data of any other shape unchanged.          *)
C6_UnpackScalar ==
  (pc = "returned" /\ args.op = "unpack_scalar") =>
    IF Len(args.data.rows) = 1 /\ Len(args.data.cols) = 1
    THEN res = Scalar(args.data.rows[1][1])
    ELSE res.tag = "frame" /\ res.val = args.data

(***************************************************************************)
(* DaskInterface.groupby (dask.py:113-140).                                *)
(***************************************************************************)
MaxGroupRows == 3

(* the float nan of a key column (np.isnan, dask.py:130) *)
NaN == -1

isnan(c) == c = NaN

(* Python equality of two coordinates: nan equals nothing, itself included *)
TupleEq(s, t) ==
  /\ Len(s) = Len(t)
  /\ \A i \in 1..Len(s) : ~isnan(s[i]) /\ ~isnan(t[i]) /\ s[i] = t[i]

(* util.unique_iterator (holoviews/core/util.py): the items of seq not     *)
(* seen before, in order; seen holds the items yielded so far              *)
RECURSIVE unique_iterator(_, _)
unique_iterator(seq, seen) ==
  IF seq = <<>> THEN <<>>
  ELSE LET item == Head(seq)
       IN IF \E j \in 1..Len(seen) : TupleEq(seen[j], item)
          THEN unique_iterator(Tail(seq), seen)
          ELSE <<item>> \o unique_iterator(Tail(seq), Append(seen, item))

(* columns.data[dimensions].compute().values: one tuple per row *)
Indices(df, dimensions) ==
  [r \in 1..Len(df) |-> [i \in 1..Len(dimensions) |-> df[r][dimensions[i]]]]

(* groupby.get_group(coord): the rows whose grouping columns hold coord *)
get_group(df, dimensions, coord) ==
  BoolIndex(df, [r \in 1..Len(df) |->
                   \A i \in 1..Len(dimensions) : df[r][dimensions[i]] = coord[i]])

(* dask.py:116-117 *)
RECURSIVE ElementDims(_, _)
ElementDims(kds, index_dims) ==
  IF kds = <<>> THEN <<>>
  ELSE (IF \E i \in 1..Len(index_dims) : index_dims[i] = Head(kds)
        THEN <<>> ELSE <<Head(kds)>>) \o ElementDims(Tail(kds), index_dims)

(* dask.py:119-123: kdims=element_dims is passed to Element group types *)
GroupKwargs(group_type, element_dims) ==
  IF group_type = "Element" THEN element_dims ELSE <<>>

(* CoordEntry without the `continue` of dask.py:130-131 *)
CoordEntryKeepsNaN(df, dimensions, coord, group_type, element_dims) ==
  <<[key |-> [bare |-> Len(coord) = 1, coord |-> coord],
     group |-> [type |-> group_type,
                data |-> get_group(df, dimensions, coord),
                kdims |-> GroupKwargs(group_type, element_dims)]]>>

(* dask.py:130-135: one turn of `for coord in coords`; the entries it adds *)
CoordEntry(df, dimensions, coord, group_type, element_dims) ==
  IF \E i \in 1..Len(coord) : isnan(coord[i]) THEN <<>>
  ELSE <<[key |-> [bare |-> Len(coord) = 1, coord |-> coord],
          group |-> [type |-> group_type,
                     data |-> get_group(df, dimensions, coord),
                     kdims |-> GroupKwargs(group_type, element_dims)]]>>

RECURSIVE CoordLoop(_, _, _, _, _)
CoordLoop(df, dimensions, coords, group_type, element_dims) ==
  IF coords = <<>> THEN <<>>
  ELSE CoordEntry(df, dimensions, Head(coords), group_type, element_dims)
       \o CoordLoop(df, dimensions, Tail(coords), group_type, element_dims)

groupby(dataset, dimensions, container_type, group_type) ==
  LET index_dims == dimensions
      element_dims == ElementDims(kdims, index_dims)
      indices == Indices(dataset.data, dimensions)
      coords == unique_iterator(indices, <<>>)
      data == CoordLoop(dataset.data, dimensions, coords, group_type, element_dims)
  IN [tag |-> "container",
      val |-> [type |-> container_type,
               kdims |-> IF container_type = "NdMapping" THEN index_dims ELSE <<>>,
               data |-> data]]

GroupRows == [x : {0, 1, NaN}, y : 0..1, v : {3, 4}, w : {5}]

KeyDimLists == {<<"x">>, <<"y">>, <<"x", "y">>, <<"y", "x">>}

InitGroup ==
  /\ pc = "idle"
  /\ columns \in [data : SeqsUpTo(GroupRows, MaxGroupRows),
                  dtypes : [x : {"f"}, y : {"i"}, v : {"i"}, w : {"O", "i"}]]
  /\ element = NoElement
  /\ plot = NoPlot
  /\ args = NoArgs
  /\ res = None

GroupBy ==
  /\ pc = "idle"
  /\ \E dimensions \in KeyDimLists, container_type \in {"list", "NdMapping"},
        group_type \in {"Element", "other"} :
       /\ args' = [op |-> "groupby", dimensions |-> dimensions,
                   container_type |-> container_type, group_type |-> group_type]
       /\ res' = groupby(columns, dimensions, container_type, group_type)
  /\ pc' = "returned"
  /\ UNCHANGED <<columns, element, plot>>

(***************************************************************************)
(* DaskInterface.aggregate (dask.py:142-166).  The numeric work is the     *)
(* engine's: a cell of the result records which reduction of the engine    *)
(* was called (or which function was applied) and on which values.         *)
(***************************************************************************)
Reduced(method, values) == [engine |-> method, fn |-> "", over |-> values]

Applied(function, values) == [engine |-> "apply", fn |-> function.func_name, over |-> values]

(* dask.py:152-153 *)
InbuiltNames == {"amin", "amax", "mean", "std", "sum", "var"}

inbuilts(name) ==
  CASE name = "amin" -> "min"
    [] name = "amax" -> "max"
    [] OTHER -> name

(* hasattr(function, 'func_name') and function.func_name in inbuilts *)
IsInbuilt(function) == function.has_func_name /\ function.func_name \in InbuiltNames

InSeq(e, seq) == \E i \in 1..Len(seq) : seq[i] = e

(* the members of seq that are in the set keep, in order *)
RECURSIVE FilterSeq(_, _)
FilterSeq(seq, keep) ==
  IF seq = <<>> THEN <<>>
  ELSE (IF Head(seq) \in keep THEN <<Head(seq)>> ELSE <<>>) \o FilterSeq(Tail(seq), keep)

(* dask.py:145 *)
AggCols(dimensions) == FilterSeq(kdims, {d \in {"x", "y", "v", "w"} : InSeq(d, dimensions)})

(* dask.py:146-149 *)
Numeric(dataset) ==
  FilterSeq(DataColumns,
            {c \in {"x", "y", "v", "w"} :
               dataset.dtypes[c] \in {"i", "u", "f", "c"} /\ InSeq(c, vdims)})

(* reindexed.groupby(cols, sort=False): the keys of the groups, in order   *)
(* of first appearance; rows with a nan key belong to no group             *)
RECURSIVE EngineGroupKeys(_, _)
EngineGroupKeys(keys, seen) ==
  IF keys = <<>> THEN <<>>
  ELSE LET k == Head(keys)
       IN IF (\E i \in 1..Len(k) : isnan(k[i])) \/ InSeq(k, seen)
          THEN EngineGroupKeys(Tail(keys), seen)
          ELSE <<k>> \o EngineGroupKeys(Tail(keys), Append(seen, k))

(* AggregateGroups refusing a function that is not in-built, as the branch *)
(* without dimensions does                                                *)
AggregateGroupsRefuses(dataset, cols, numeric, function) ==
  IF IsInbuilt(function)
  THEN [tag |-> "frame",
        val |-> [cols |-> cols \o numeric,
                 rows |-> LET keys == EngineGroupKeys(Indices(dataset.data, cols), <<>>)
                          IN [g \in 1..Len(keys) |->
                                [key |-> keys[g],
                                 vals |-> [j \in 1..Len(numeric) |->
                                             Reduced(inbuilts(function.func_name),
                                                     SeriesOf(get_group(dataset.data, cols, keys[g]),
                                                              numeric[j]))]]]]]
  ELSE Raise("NotImplementedError")

(* dask.py:155-160 *)
AggregateGroups(dataset, cols, numeric, function) ==
  LET reindexed == dataset.data
      keys == EngineGroupKeys(Indices(reindexed, cols), <<>>)
      Row(k) ==
        LET group == get_group(reindexed, cols, k)
        IN [key |-> k,
            vals |-> IF IsInbuilt(function)
                     THEN [j \in 1..Len(numeric) |->
                             Reduced(inbuilts(function.func_name),
                                     SeriesOf(group, numeric[j]))]
                     ELSE <<Applied(function, Indices(group, cols \o numeric))>>]
  IN [tag |-> "frame",
      val |-> [cols |-> cols \o numeric, rows |-> [g \in 1..Len(keys) |-> Row(keys[g])]]]

(* dask.py:162-166 *)
AggregateAll(dataset, cols, numeric, function) ==
  IF IsInbuilt(function)
  THEN [tag |-> "frame",
        val |-> [cols |-> cols \o numeric,
                 rows |-> <<[key |-> <<>>,
                             vals |-> [j \in 1..Len(numeric) |->
                                         Reduced(inbuilts(function.func_name),
                                                 SeriesOf(dataset.data, numeric[j]))]]>>]]
  ELSE Raise("NotImplementedError")

aggregate(dataset, dimensions, function) ==
  LET cols == AggCols(dimensions)
      numeric == Numeric(dataset)
  IN IF Len(dimensions) # 0
     THEN AggregateGroups(dataset, cols, numeric, function)
     ELSE AggregateAll(dataset, cols, numeric, function)

Functions ==
  [has_func_name : {TRUE}, func_name : InbuiltNames \cup {"median"}]
  \cup [has_func_name : {FALSE}, func_name : {""}]

Aggregate ==
  /\ pc = "idle"
  /\ \E dimensions \in KeyDimLists \cup {<<>>}, function \in Functions :
       /\ args' = [op |-> "aggregate", dimensions |-> dimensions, function |-> function]
       /\ res' = aggregate(columns, dimensions, function)
  /\ pc' = "returned"
  /\ UNCHANGED <<columns, element, plot>>

NextGroup == GroupBy \/ Aggregate

SpecGroup == InitGroup /\ [][NextGroup]_vars

(***************************************************************************)
(* Claims about groupby and aggregate.                                     *)
(***************************************************************************)
CleanCoord(c) == \A i \in 1..Len(c) : c[i] # NaN

RowsAt(df, dims, c) ==
  BoolIndex(df, [r \in 1..Len(df) |-> Indices(df, dims)[r] = c])

FirstRow(df, dims, c) ==
  CHOOSE r \in 1..Len(df) :
    /\ Indices(df, dims)[r] = c
    /\ \A q \in 1..(r - 1) : Indices(df, dims)[q] # c

C5_AggregateDispatch ==
  (pc = "returned" /\ args.op = "aggregate") =>
    LET f == args.function
        dims == args.dimensions
        df == columns.data
        named == f.has_func_name
                   /\ f.func_name \in {"amin", "amax", "mean", "std", "sum", "var"}
        method == CASE f.func_name = "amin" -> "min"
                    [] f.func_name = "amax" -> "max"
                    [] OTHER -> f.func_name
        IsNumeric(c) == columns.dtypes[c] \in {"i", "u", "f", "c"}
        IsNamed(d) == \E i \in 1..Len(dims) : dims[i] = d
        numcols == SelectSeq(vdims, IsNumeric)
        keycols == SelectSeq(kdims, IsNamed)
        groupKeys == {c \in {Indices(df, keycols)[r] : r \in 1..Len(df)} : CleanCoord(c)}
    IN /\ res.tag = "raise" <=> (dims = <<>> /\ ~named)
       /\ res.tag = "raise" => res.val = "NotImplementedError"
       /\ res.tag # "raise" =>
            /\ res.tag = "frame"
            /\ res.val.cols = keycols \o numcols
            /\ IF dims = <<>>
               THEN /\ Len(res.val.rows) = 1
                    /\ res.val.rows[1].vals =
                         [j \in 1..Len(numcols) |-> Reduced(method, SeriesOf(df, numcols[j]))]
               ELSE /\ Len(res.val.rows) = Cardinality(groupKeys)
                    /\ {res.val.rows[g].key : g \in 1..Len(res.val.rows)} = groupKeys
                    /\ \A g \in 1..Len(res.val.rows) :
                         LET group == RowsAt(df, keycols, res.val.rows[g].key)
                         IN res.val.rows[g].vals =
                              IF named
                              THEN [j \in 1..Len(numcols) |->
                                      Reduced(method, SeriesOf(group, numcols[j]))]
                              ELSE <<Applied(f, Indices(group, keycols \o numcols))>>

(* a function that is refused without dimensions is applied per group *)
C5_Witness ==
  /\ pc = "returned" /\ args.op = "aggregate"
  /\ args.function = [has_func_name |-> TRUE, func_name |-> "median"]
  /\ args.dimensions = <<"x">>
  /\ res.tag = "frame" /\ Len(res.val.rows) = 2

(***************************************************************************)
(* RasterPlot.get_data and RGBPlot.get_data (raster.py:23-58, 67-100).     *)
(* An image is a sequence of rows, each a sequence of cells; the state of  *)
(* the placement is the record [img, l, b, r, t].                          *)
(***************************************************************************)
MaxSide == 2

NRows(m) == Len(m)

NCols(m) == Len(m[1])

(* img.T *)
Transpose(m) == [j \in 1..NCols(m) |-> [i \in 1..NRows(m) |-> m[i][j]]]

(* img[::-1] *)
ReverseRows(m) == [i \in 1..NRows(m) |-> m[NRows(m) + 1 - i]]

(* img[:, ::-1] *)
ReverseCols(m) == [i \in 1..NRows(m) |-> [j \in 1..NCols(m) |-> m[i][NCols(m) + 1 - j]]]

(* raster.py:40-42, 45-47, 88-90 *)
InvertAxes(s, self) ==
  IF self.invert_axes
  THEN [img |-> Transpose(s.img), l |-> s.b, b |-> s.l, r |-> s.t, t |-> s.r]
  ELSE s

(* InvertXAxis reversing the columns without exchanging l and r *)
InvertXAxisKeepsEdges(s, self) ==
  IF self.invert_xaxis THEN [s EXCEPT !.img = ReverseCols(s.img)] ELSE s

(* raster.py:49-51, 91-93 *)
InvertXAxis(s, self) ==
  IF self.invert_xaxis
  THEN [s EXCEPT !.l = s.r, !.r = s.l, !.img = ReverseCols(s.img)]
  ELSE s

(* raster.py:52-54, 94-96 *)
InvertYAxis(s, self) ==
  IF self.invert_yaxis
  THEN [s EXCEPT !.img = ReverseRows(s.img), !.b = s.t, !.t = s.b]
  ELSE s

(* raster.py:55-57, 97-99 *)
PlotData(s) ==
  [tag |-> "data",
   val |-> [image |-> s.img, x |-> s.l, y |-> s.b, dw |-> s.r - s.l, dh |-> s.t - s.b]]

EmptyData == [tag |-> "data", val |-> [image |-> <<>>, x |-> 0, y |-> 0, dw |-> 0, dh |-> 0]]

(* raster.py:31-33: boolean images are cast to int8 *)
DimensionValues(elem) ==
  IF elem.dtype = "bool" THEN [dtype |-> "int8", cells |-> elem.img]
  ELSE [dtype |-> elem.dtype, cells |-> elem.img]

(* raster.py:35-47: the image and the extents before the axis inversions *)
RasterExtents(elem, img) ==
  IF elem.kind = "Raster"
  THEN [img |-> img, l |-> 0, b |-> 0, r |-> NCols(elem.img), t |-> NRows(elem.img)]
  ELSE [img |-> img, l |-> elem.bounds[1], b |-> elem.bounds[2],
        r |-> elem.bounds[3], t |-> elem.bounds[4]]

RasterPlot_get_data(self, elem) ==
  IF self.static_source THEN EmptyData
  ELSE LET img == DimensionValues(elem).cells
       IN PlotData(InvertYAxis(InvertXAxis(InvertAxes(RasterExtents(elem, img), self),
                                           self), self))

(* the values of a float image are n / FloatDen, n in 0..FloatDen *)
FloatDen == 4

(* np.ones without the cast of raster.py:77-78 *)
AlphaOnes(dtype) == IF dtype = "uint8" THEN 1 ELSE FloatDen

(* raster.py:76-78: the alpha value added to an image of three channels *)
Alpha(dtype) == IF dtype = "uint8" THEN 255 ELSE FloatDen

(* raster.py:80-81: (img*255).astype(np.uint8) of one value *)
ToUint8(dtype, value) ==
  IF dtype = "uint8" THEN value ELSE ((value * 255) \div FloatDen) % 256

(* raster.py:84: the four uint8 of a pixel viewed as one uint32.  The view  *)
(* reinterprets the memory and copies nothing: the uint32 is given by its  *)
(* four bytes in memory order (its value exceeds the integers of TLC)      *)
ViewUint32(px) == [uint32 |-> <<px[1], px[2], px[3], px[4]>>]

(* raster.py:72-84 *)
PackRGBA(elem) ==
  LET n == NRows(elem.channels[1])
      m == NCols(elem.channels[1])
      dstack == [i \in 1..n |-> [j \in 1..m |->
                   [c \in 1..Len(elem.channels) |-> elem.channels[c][i][j]]]]
      withAlpha == [i \in 1..n |-> [j \in 1..m |->
                      IF Len(dstack[i][j]) = 3
                      THEN Append(dstack[i][j], Alpha(elem.dtype))
                      ELSE dstack[i][j]]]
  IN [i \in 1..n |-> [j \in 1..m |->
        ViewUint32([c \in 1..4 |-> ToUint8(elem.dtype, withAlpha[i][j][c])])]]

RGBPlot_get_data(self, elem) ==
  IF self.static_source THEN EmptyData
  ELSE LET img == PackRGBA(elem)
           s == [img |-> img, l |-> elem.bounds[1], b |-> elem.bounds[2],
                 r |-> elem.bounds[3], t |-> elem.bounds[4]]
       IN PlotData(InvertYAxis(InvertXAxis(InvertAxes(s, self), self), self))

(* the n x m matrices over the set cells *)
Matrices(cells, n, m) == [1..n -> [1..m -> cells]]

Bounds == {<<-1, 0, 2, 1>>, <<0, -2, 1, 3>>}

RasterElements ==
  UNION {[kind : {"Raster", "Image"}, dtype : {"bool", "int64"},
          img : Matrices({0, 1}, n, m), bounds : Bounds,
          channels : {<<>>}] : n \in 1..MaxSide, m \in 1..MaxSide}

PaletteUint8 == {<<1, 2, 3, 4>>, <<255, 0, 128, 77>>}

PaletteFloat == {<<0, 1, 2, 3>>, <<4, 3, 1, 2>>}

(* an RGB element of nch channels whose pixels are those of pix *)
RGBElement(dtype, nch, pix, bounds) ==
  [kind |-> "RGB", dtype |-> dtype, img |-> <<>>, bounds |-> bounds,
   channels |-> [c \in 1..nch |->
                   [i \in 1..NRows(pix) |-> [j \in 1..NCols(pix) |-> pix[i][j][c]]]]]

RGBElements ==
  UNION {{RGBElement("uint8", nch, pix, bounds) :
            nch \in 3..4, pix \in Matrices(PaletteUint8, n, m), bounds \in Bounds}
         \cup {RGBElement("float64", nch, pix, bounds) :
                 nch \in 3..4, pix \in Matrices(PaletteFloat, n, m), bounds \in Bounds}
         : n \in 1..MaxSide, m \in 1..MaxSide}

Plots ==
  [invert_axes : BOOLEAN, invert_xaxis : BOOLEAN, invert_yaxis : BOOLEAN,
   static_source : BOOLEAN]

InitPlot ==
  /\ pc = "idle"
  /\ columns = [data |-> <<>>]
  /\ element \in RasterElements \cup RGBElements
  /\ plot \in Plots
  /\ args = NoArgs
  /\ res = None

RasterGetData ==
  /\ pc = "idle"
  /\ element.kind \in {"Raster", "Image"}
  /\ args' = [op |-> "RasterPlot.get_data"]
  /\ res' = RasterPlot_get_data(plot, element)
  /\ pc' = "returned"
  /\ UNCHANGED <<columns, element, plot>>

RGBGetData ==
  /\ pc = "idle"
  /\ element.kind = "RGB"
  /\ args' = [op |-> "RGBPlot.get_data"]
  /\ res' = RGBPlot_get_data(plot, element)
  /\ pc' = "returned"
  /\ UNCHANGED <<columns, element, plot>>

NextPlot == RasterGetData \/ RGBGetData

SpecPlot == InitPlot /\ [][NextPlot]_vars

(***************************************************************************)
(* Claims about the plots.                                                 *)
(***************************************************************************)
(* the image of the element before any axis handling *)
SourceImage == IF element.kind = "RGB" THEN PackRGBA(element) ELSE element.img

(* the element's extent <<l, b, r, t>> *)
ElementExtent ==
  IF element.kind = "Raster"
  THEN <<0, 0, NCols(element.img), NRows(element.img)>>
  ELSE element.bounds

(* where the pixel (i, j) of the plotted image comes from in the source *)
SourceRow(i, j, n, m) ==
  LET pi == IF plot.invert_yaxis THEN n + 1 - i ELSE i
      pj == IF plot.invert_xaxis THEN m + 1 - j ELSE j
  IN IF plot.invert_axes THEN pj ELSE pi

SourceCol(i, j, n, m) ==
  LET pi == IF plot.invert_yaxis THEN n + 1 - i ELSE i
      pj == IF plot.invert_xaxis THEN m + 1 - j ELSE j
  IN IF plot.invert_axes THEN pi ELSE pj

(* C3: with static_source false the image is transposed and the extents    *)
(* exchanged exactly when invert_axes is set; its columns are reversed     *)
(* exactly when x is anchored at the right edge with dw = l - r            *)
(* (invert_xaxis), its rows exactly when y is anchored at the top edge     *)
(* with dh = b - t (invert_yaxis); {x, x+dw} and {y, y+dh} are always the  *)
(* two ends of the element's extent on that plot axis.                     *)
C3_AxisInversion ==
  (pc = "returned" /\ args.op \in {"RasterPlot.get_data", "RGBPlot.get_data"}
     /\ ~plot.static_source) =>
    LET src == SourceImage
        ext == ElementExtent
        L == IF plot.invert_axes THEN ext[2] ELSE ext[1]
        B == IF plot.invert_axes THEN ext[1] ELSE ext[2]
        R == IF plot.invert_axes THEN ext[4] ELSE ext[3]
        T == IF plot.invert_axes THEN ext[3] ELSE ext[4]
        out == res.val
        n == NRows(out.image)
        m == NCols(out.image)
    IN /\ <<n, m>> = IF plot.invert_axes THEN <<NCols(src), NRows(src)>>
                     ELSE <<NRows(src), NCols(src)>>
       /\ \A i \in 1..n, j \in 1..m :
            out.image[i][j] = src[SourceRow(i, j, n, m)][SourceCol(i, j, n, m)]
       /\ IF plot.invert_xaxis THEN out.x = R /\ out.dw = L - R
          ELSE out.x = L /\ out.dw = R - L
       /\ IF plot.invert_yaxis THEN out.y = T /\ out.dh = B - T
          ELSE out.y = B /\ out.dh = T - B
       /\ {out.x, out.x + out.dw} = {L, R}
       /\ {out.y, out.y + out.dh} = {B, T}

(* every inversion at once on an image that is not square *)
C3_Witness ==
  /\ pc = "returned" /\ args.op = "RasterPlot.get_data" /\ ~plot.static_source
  /\ plot.invert_axes /\ plot.invert_xaxis /\ plot.invert_yaxis
  /\ element.kind = "Image" /\ element.img = <<<<0, 1>>>>
  /\ res.val.image = <<<<1>>, <<0>>>>
  /\ res.val.dw < 0 /\ res.val.dh < 0

(* the byte a channel value is packed as *)
ChannelByte(value) ==
  IF element.dtype = "uint8" THEN value ELSE ((value * 255) \div FloatDen) % 256

(* a byte equal to the channel value it was supplied as *)
ByteIsValue(byte, value) ==
  IF element.dtype = "uint8" THEN byte = value ELSE byte * FloatDen = value

(* the bytes of every pixel of the plotted image; the supplied alpha of an *)
(* element of four channels is either converted like the colour channels  *)
(* or is the fourth byte as it stands                                      *)
RGBPixels(converted) ==
  LET out == res.val.image
      n == NRows(out)
      m == NCols(out)
      N == NRows(element.channels[1])
      M == NCols(element.channels[1])
  IN /\ n * m = N * M
     /\ <<n, m>> = IF plot.invert_axes THEN <<M, N>> ELSE <<N, M>>
     /\ \A i \in 1..n, j \in 1..m :
          LET si == SourceRow(i, j, n, m)
              sj == SourceCol(i, j, n, m)
              bytes == out[i][j].uint32
          IN /\ \A c \in 1..3 : bytes[c] = ChannelByte(element.channels[c][si][sj])
             /\ IF Len(element.channels) = 3 THEN bytes[4] = 255
                ELSE IF converted
                     THEN bytes[4] = ChannelByte(element.channels[4][si][sj])
                     ELSE ByteIsValue(bytes[4], element.channels[4][si][sj])

(* C7 (as amended): RGBPlot.get_data packs one 32-bit pixel per input      *)
(* pixel (N x M before the axis handling); the red, green and blue bytes   *)
(* are the channel values for uint8 input and value*255 truncated to 8     *)
(* bits otherwise; with three channels the alpha byte is 255, with four    *)
(* the supplied alpha is packed as the fourth byte by the same conversion  *)
(* as the colour channels.                                                 *)
C7_RGBPacking ==
  (pc = "returned" /\ args.op = "RGBPlot.get_data" /\ ~plot.static_source) =>
    RGBPixels(TRUE)

(* C7 (as claimed): with four channels the supplied alpha is the fourth    *)
(* byte, unchanged.                                                        *)
C7_AlphaUnchanged ==
  (pc = "returned" /\ args.op = "RGBPlot.get_data" /\ ~plot.static_source) =>
    RGBPixels(FALSE)

(* a float image of four channels: 1, 3/4, 1/4 and the alpha 1/2 become    *)
(* the bytes 255, 191, 63 and 127                                          *)
C7_Witness ==
  /\ pc = "returned" /\ args.op = "RGBPlot.get_data" /\ ~plot.static_source
  /\ element.dtype = "float64" /\ Len(element.channels) = 4
  /\ element.channels[4][1][1] = 2
  /\ res.val.image[1][1] = [uint32 |-> <<255, 191, 63, 127>>]

====
